---- MODULE Spec2Model ----
(***************************************************************************)
(* Model of the task-analysis engine of backend/tasks/scoring.py:          *)
(* TaskValidator, DependencyAnalyzer, PriorityScorer, analyze_tasks and    *)
(* suggest_tasks.                                                          *)
(*                                                                         *)
(* The engine is a set of pure functions.  Each specification below draws  *)
(* the arguments of one call in its initial states and has one action per  *)
(* entry point, which applies the whole function and stores what the call  *)
(* returned, or the exception it raised, in ret.                           *)
(*                                                                         *)
(* Python values are tagged records [t, n, s, l]:                          *)
(*   t = "missing" the key is absent from the dict                         *)
(*   t = "none"    None                                                    *)
(*   t = "bool"    n = 0 or 1                                              *)
(*   t = "int"     n                                                       *)
(*   t = "float"   n tenths (1.5 is n = 15)                                *)
(*   t = "nan", "inf", "ninf"   the float nan, +inf and -inf               *)
(*   t = "str"     s, the string as a sequence of characters               *)
(*   t = "list"    l, a list of integers                                   *)
(*   t = "date"    n, the proleptic Gregorian ordinal (date.toordinal())   *)
(* Scores are fixed-point numbers in units of 1/10000, weights and the     *)
(* rounded (2 decimals) figures of a result are in units of 1/100.         *)
(***************************************************************************)
EXTENDS Integers, Sequences, FiniteSets, TLC

VARIABLES
  pc,        \* "call" before the call, "done" after it
  op,        \* the function called
  task,      \* the raw record given to validate_task
  tasks,     \* the batch given to the other functions
  task_id,   \* the task_id given to count_blocking_tasks
  strategy,  \* the strategy name given to analyze_tasks and suggest_tasks
  count,     \* the count given to suggest_tasks
  due_date,  \* the due_date given to calculate_urgency_score
  today,     \* the today given to calculate_urgency_score
  now,       \* date.today(), the date of the call
  ret,       \* what the call returned or raised
  weights_arg,       \* the StrategyWeights that normalize is called on
  strategy_weights,  \* the module-level dict STRATEGY_WEIGHTS
  history,           \* the calls of a session so far, with what they returned
  dependents,        \* count_blocking_tasks: the set dependents
  queue              \* count_blocking_tasks: the list queue

vars == <<pc, op, task, tasks, task_id, strategy, count, due_date, today, now, ret,
          weights_arg, strategy_weights, history, dependents, queue>>

(***************************************************************************)
(* Python values                                                           *)
(***************************************************************************)
Val(t, n, s, l) == [t |-> t, n |-> n, s |-> s, l |-> l]
Missing == Val("missing", 0, <<>>, <<>>)
None == Val("none", 0, <<>>, <<>>)
Bool(b) == Val("bool", IF b THEN 1 ELSE 0, <<>>, <<>>)
Int_(n) == Val("int", n, <<>>, <<>>)
Float(tenths) == Val("float", tenths, <<>>, <<>>)
NaN == Val("nan", 0, <<>>, <<>>)
Inf == Val("inf", 0, <<>>, <<>>)
NegInf == Val("ninf", 0, <<>>, <<>>)
Str(s) == Val("str", 0, s, <<>>)
List(l) == Val("list", 0, <<>>, l)
Date(ordinal) == Val("date", ordinal, <<>>, <<>>)

\* The outcome of a call: a returned value or a raised exception.
Return(v) == [raised |-> FALSE, exc |-> "", v |-> v]
Raise(e) == [raised |-> TRUE, exc |-> e, v |-> 0]

Digits == <<"0", "1", "2", "3", "4", "5", "6", "7", "8", "9">>
IsDigit(c) == \E i \in 1..10 : Digits[i] = c
DigitVal(c) == (CHOOSE i \in 1..10 : Digits[i] = c) - 1
Whitespace == {" ", "\t", "\n"}

RECURSIVE LStrip(_)
LStrip(s) == IF s # <<>> /\ Head(s) \in Whitespace THEN LStrip(Tail(s)) ELSE s
RECURSIVE RStrip(_)
RStrip(s) ==
  IF s # <<>> /\ s[Len(s)] \in Whitespace THEN RStrip(SubSeq(s, 1, Len(s) - 1)) ELSE s
\* str.strip()
Strip(s) == RStrip(LStrip(s))

\* The value of a sequence of digit characters.
RECURSIVE DigitsVal(_)
DigitsVal(s) ==
  IF s = <<>> THEN 0 ELSE 10 * DigitsVal(SubSeq(s, 1, Len(s) - 1)) + DigitVal(s[Len(s)])
AllDigits(s) == s # <<>> /\ \A i \in 1..Len(s) : IsDigit(s[i])

\* bool(v): the truth value the test `if due_date:` uses.
Truthy(v) ==
  CASE v.t \in {"missing", "none"} -> FALSE
    [] v.t \in {"bool", "int", "float"} -> v.n # 0
    [] v.t = "str" -> v.s # <<>>
    [] v.t = "list" -> v.l # <<>>
    [] OTHER -> TRUE

(***************************************************************************)
(* datetime.date                                                           *)
(***************************************************************************)
IsLeap(y) == y % 4 = 0 /\ (y % 100 # 0 \/ y % 400 = 0)
DaysInMonth(y, m) ==
  IF m = 2 THEN (IF IsLeap(y) THEN 29 ELSE 28)
  ELSE IF m \in {4, 6, 9, 11} THEN 30 ELSE 31
RECURSIVE DaysBeforeMonth(_, _)
DaysBeforeMonth(y, m) ==
  IF m = 1 THEN 0 ELSE DaysBeforeMonth(y, m - 1) + DaysInMonth(y, m - 1)
DaysBeforeYear(y) ==
  (y - 1) * 365 + ((y - 1) \div 4) - ((y - 1) \div 100) + ((y - 1) \div 400)
\* date(y, m, d).toordinal()
Ordinal(y, m, d) == DaysBeforeYear(y) + DaysBeforeMonth(y, m) + d

\* date.fromisoformat(s) on "YYYY-MM-DD": the date, or ValueError.
FromIsoFormat(s) ==
  IF Len(s) # 10 \/ s[5] # "-" \/ s[8] # "-"
     \/ ~AllDigits(SubSeq(s, 1, 4)) \/ ~AllDigits(SubSeq(s, 6, 7))
     \/ ~AllDigits(SubSeq(s, 9, 10))
  THEN Raise("ValueError")
  ELSE LET y == DigitsVal(SubSeq(s, 1, 4))
           m == DigitsVal(SubSeq(s, 6, 7))
           d == DigitsVal(SubSeq(s, 9, 10))
       IN IF y < 1 \/ m < 1 \/ m > 12 \/ d < 1 \/ d > DaysInMonth(y, m)
          THEN Raise("ValueError")
          ELSE Return(Date(Ordinal(y, m, d)))

(***************************************************************************)
(* float() and int()                                                       *)
(***************************************************************************)
Lower(c) ==
  CASE c = "N" -> "n" [] c = "A" -> "a" [] c = "I" -> "i" [] c = "F" -> "f"
    [] OTHER -> c
LowerAll(s) == [i \in 1..Len(s) |-> Lower(s[i])]

\* An unsigned decimal literal with at most one fractional digit, in tenths;
\* -1 when s is no such literal.
Tenths(s) ==
  IF AllDigits(s) THEN 10 * DigitsVal(s)
  ELSE IF Len(s) >= 3 /\ s[Len(s) - 1] = "." /\ IsDigit(s[Len(s)])
          /\ AllDigits(SubSeq(s, 1, Len(s) - 2))
       THEN 10 * DigitsVal(SubSeq(s, 1, Len(s) - 2)) + DigitVal(s[Len(s)])
       ELSE -1

\* float(s) for a string: surrounding whitespace and a sign are accepted, and
\* "nan" and "inf" in any case.
ParseFloat(s0) ==
  LET s == Strip(s0)
      neg == s # <<>> /\ Head(s) = "-"
      body == IF s # <<>> /\ Head(s) \in {"-", "+"} THEN Tail(s) ELSE s
  IN CASE LowerAll(body) = <<"n", "a", "n">> -> Return(NaN)
       [] LowerAll(body) = <<"i", "n", "f">> -> Return(IF neg THEN NegInf ELSE Inf)
       [] OTHER -> IF Tenths(body) < 0 THEN Raise("ValueError")
                   ELSE Return(Float(IF neg THEN -Tenths(body) ELSE Tenths(body)))

\* float(v)
ToFloat(v) ==
  CASE v.t \in {"int", "bool"} -> Return(Float(10 * v.n))
    [] v.t \in {"float", "nan", "inf", "ninf"} -> Return(v)
    [] v.t = "str" -> ParseFloat(v.s)
    [] OTHER -> Raise("TypeError")

\* int(s) for a string: surrounding whitespace and a sign are accepted.
ParseInt(s0) ==
  LET s == Strip(s0)
      neg == s # <<>> /\ Head(s) = "-"
      body == IF s # <<>> /\ Head(s) \in {"-", "+"} THEN Tail(s) ELSE s
  IN IF AllDigits(body)
     THEN Return(IF neg THEN -DigitsVal(body) ELSE DigitsVal(body))
     ELSE Raise("ValueError")

\* int(v): a float is truncated toward zero.
ToInt(v) ==
  CASE v.t \in {"int", "bool"} -> Return(v.n)
    [] v.t = "float" -> Return(IF v.n >= 0 THEN v.n \div 10 ELSE -((-v.n) \div 10))
    [] v.t = "nan" -> Raise("ValueError")
    [] v.t \in {"inf", "ninf"} -> Raise("OverflowError")
    [] v.t = "str" -> ParseInt(v.s)
    [] OTHER -> Raise("TypeError")

\* x <= 0 and x > 1000 for a float x: every comparison with nan is false.
FloatLeZero(x) == x.t = "ninf" \/ (x.t = "float" /\ x.n <= 0)
FloatGtThousand(x) == x.t = "inf" \/ (x.t = "float" /\ x.n > 10000)

(***************************************************************************)
(* TaskValidator.validate_task                                             *)
(***************************************************************************)
UntitledTask == <<"U", "n", "t", "i", "t", "l", "e", "d", " ", "T", "a", "s", "k">>

ErrTitle == "Title is required and cannot be empty"
ErrDueDate == "Invalid due_date format"
ErrHoursPositive == "estimated_hours must be positive, defaulting to 1"
ErrHoursHigh == "estimated_hours seems unreasonably high, capping at 1000"
ErrHoursInvalid == "Invalid estimated_hours, defaulting to 1"
ErrImportance == "Invalid importance, defaulting to 5"
ErrDependencies == "Dependencies must be a list"

\* task.get(key, default)
Get(v, default) == IF v.t = "missing" THEN default ELSE v

\* Each step returns [raised, exc, errors, value]: the errors it appends and
\* the sanitized field.
Field(errors, value) == [raised |-> FALSE, exc |-> "", errors |-> errors, value |-> value]
FieldRaise(e) == [raised |-> TRUE, exc |-> e, errors |-> <<>>, value |-> None]

\* Lines 79-82: title = task.get('title', '').strip(); only a str has strip().
ValidateTitle(raw) ==
  LET v == Get(raw, Str(<<>>))
  IN IF v.t # "str" THEN FieldRaise("AttributeError")
     ELSE LET title == Strip(v.s)
          IN Field(IF title = <<>> THEN <<ErrTitle>> ELSE <<>>,
                   Str(IF title = <<>> THEN UntitledTask ELSE title))

\* Lines 85-99.
ValidateDueDate(raw) ==
  LET v == Get(raw, None)
  IN IF ~Truthy(v) THEN Field(<<>>, None)
     ELSE IF v.t = "str"
          THEN LET r == FromIsoFormat(v.s)
               IN IF r.raised THEN Field(<<ErrDueDate>>, None) ELSE Field(<<>>, r.v)
          ELSE IF v.t = "date" THEN Field(<<>>, v)
          ELSE Field(<<ErrDueDate>>, None)

\* Lines 102-114: only TypeError and ValueError are caught.
ValidateHours(raw) ==
  LET r == ToFloat(Get(raw, Int_(1)))
  IN IF r.raised
     THEN (IF r.exc \in {"TypeError", "ValueError"}
           THEN Field(<<ErrHoursInvalid>>, Float(10))
           ELSE FieldRaise(r.exc))
     ELSE IF FloatLeZero(r.v) THEN Field(<<ErrHoursPositive>>, Float(10))
     ELSE IF FloatGtThousand(r.v) THEN Field(<<ErrHoursHigh>>, Float(10000))
     ELSE Field(<<>>, r.v)

\* Lines 117-127: only TypeError and ValueError are caught.
ValidateImportance(raw) ==
  LET r == ToInt(Get(raw, Int_(5)))
  IN IF r.raised
     THEN (IF r.exc \in {"TypeError", "ValueError"}
           THEN Field(<<ErrImportance>>, Int_(5))
           ELSE FieldRaise(r.exc))
     ELSE Field(<<>>, Int_(IF r.v < 1 THEN 1 ELSE IF r.v > 10 THEN 10 ELSE r.v))

\* Lines 130-134.
ValidateDependencies(raw) ==
  LET v == Get(raw, List(<<>>))
  IN IF v.t # "list" THEN Field(<<ErrDependencies>>, List(<<>>)) ELSE Field(<<>>, v)

\* Lines 136-141: the result of validate_task from the outcome of each field
\* (and the id, copied when present), or the first exception.
ValidateResult(idv, title, due, hours, imp, deps) ==
  CASE title.raised -> Raise(title.exc)
    [] ~title.raised /\ hours.raised -> Raise(hours.exc)
    [] ~title.raised /\ ~hours.raised /\ imp.raised -> Raise(imp.exc)
    [] OTHER ->
       Return([is_valid |-> Len(title.errors \o due.errors \o hours.errors
                                  \o imp.errors \o deps.errors) = 0,
               errors |-> title.errors \o due.errors \o hours.errors
                            \o imp.errors \o deps.errors,
               sanitized |-> [title |-> title.value.s,
                              due_date |-> due.value,
                              estimated_hours |-> hours.value,
                              importance |-> imp.value.n,
                              dependencies |-> deps.value,
                              id |-> idv]])

\* validate_task(task): (is_valid, errors, sanitized), or the exception that
\* leaves it.  The fields are handled in the order of the code, so the first
\* step that raises ends the call.
validate_task(t) ==
  ValidateResult(t.id, ValidateTitle(t.title), ValidateDueDate(t.due_date),
                 ValidateHours(t.estimated_hours), ValidateImportance(t.importance),
                 ValidateDependencies(t.dependencies))

(***************************************************************************)
(* DependencyAnalyzer                                                      *)
(***************************************************************************)
\* str(x) of an id or of a dependency entry.
PyStr(v) ==
  CASE v.t = "int" -> ToString(v.n)
    [] v.t = "none" -> "None"
    [] v.t = "bool" -> (IF v.n = 1 THEN "True" ELSE "False")
    [] OTHER -> "?"

\* str(task.get('id', i)), i the zero-based position.
TaskId(t, i) == IF t.id.t = "missing" THEN ToString(i) ELSE PyStr(t.id)

\* [str(d) for d in task.get('dependencies', [])]
DepStrs(t) == [k \in 1..Len(t.dependencies.l) |-> ToString(t.dependencies.l[k])]

SeqContains(s, x) == \E k \in 1..Len(s) : s[k] = x
\* list.index(x), zero-based, for x in the list.
ListIndex(s, x) == (CHOOSE k \in 1..Len(s) : s[k] = x /\ \A j \in 1..(k - 1) : s[j] # x) - 1
\* Mutant of SelectSeqIn: one entry outside the set empties the list.
SelectSeqAllIn(s, set) == IF \A k \in 1..Len(s) : s[k] \in set THEN s ELSE <<>>
SelectSeqIn(s, set) == SelectSeq(s, LAMBDA x : x \in set)

\* Lines 158-164.  The keys of the dict `graph` in insertion order: a key
\* written twice keeps its first place and its last value.
GraphIds(ts) == {TaskId(ts[i], i - 1) : i \in 1..Len(ts)}
RECURSIVE GraphKeys(_, _)
GraphKeys(ts, i) ==
  IF i = 0 THEN <<>>
  ELSE LET before == GraphKeys(ts, i - 1)
           key == TaskId(ts[i], i - 1)
       IN IF SeqContains(before, key) THEN before ELSE Append(before, key)
BuildGraph(ts) ==
  [key \in GraphIds(ts) |->
     LET last == CHOOSE i \in 1..Len(ts) :
                   /\ TaskId(ts[i], i - 1) = key
                   /\ \A j \in (i + 1)..Len(ts) : TaskId(ts[j], j - 1) # key
     IN SelectSeqIn(DepStrs(ts[last]), GraphIds(ts))]

\* The variables the nested dfs() closes over, with the value it returned and
\* the exception that left it, if any.
DfsStart ==
  [visited |-> {}, rec_stack |-> {}, path |-> <<>>, cycles |-> <<>>,
   returned |-> FALSE, raised |-> FALSE, exc |-> ""]
DfsRaise(st, e) == [st EXCEPT !.raised = TRUE, !.exc = e]

\* Line 185: after recording a cycle dfs returns at once; path.pop() and
\* rec_stack.remove(node) of lines 187-188 are not run for this node.
CycleFound(st, neighbor) ==
  IF ~SeqContains(st.path, neighbor) THEN DfsRaise(st, "ValueError")
  ELSE LET cycle_start == ListIndex(st.path, neighbor)
           cycle == SubSeq(st.path, cycle_start + 1, Len(st.path)) \o <<neighbor>>
       IN [st EXCEPT !.cycles = Append(@, cycle), !.returned = FALSE]

\* Lines 187-189.
DfsLeave(st, node) ==
  IF st.path = <<>> THEN DfsRaise(st, "IndexError")
  ELSE IF node \notin st.rec_stack THEN DfsRaise(st, "KeyError")
  ELSE [st EXCEPT !.path = SubSeq(@, 1, Len(@) - 1),
                  !.rec_stack = @ \ {node},
                  !.returned = FALSE]

\* Lines 171-189: dfs(node), and its loop from the k-th neighbor on.
RECURSIVE dfs(_, _, _), dfs_neighbors(_, _, _, _)
dfs(graph, node, st) ==
  dfs_neighbors(graph, node, 1,
                [st EXCEPT !.visited = @ \cup {node},
                           !.rec_stack = @ \cup {node},
                           !.path = Append(@, node)])
dfs_neighbors(graph, node, k, st) ==
  IF k > Len(graph[node]) THEN DfsLeave(st, node)
  ELSE LET neighbor == graph[node][k]
       IN IF neighbor \notin st.visited
          THEN LET r == dfs(graph, neighbor, st)
               IN IF r.raised THEN r
                  ELSE IF r.returned THEN [r EXCEPT !.returned = TRUE]
                  ELSE dfs_neighbors(graph, node, k + 1, r)
          ELSE IF neighbor \in st.rec_stack THEN CycleFound(st, neighbor)
          ELSE dfs_neighbors(graph, node, k + 1, st)

\* Lines 191-193.
RECURSIVE DfsFrom(_, _, _, _)
DfsFrom(graph, keys, k, st) ==
  IF k > Len(keys) \/ st.raised THEN st
  ELSE DfsFrom(graph, keys, k + 1,
               IF keys[k] \notin st.visited THEN dfs(graph, keys[k], st) ELSE st)

\* detect_circular_dependencies(tasks): the list of cycles, or the exception.
detect_circular_dependencies(ts) ==
  LET st == DfsFrom(BuildGraph(ts), GraphKeys(ts, Len(ts)), 1, DfsStart)
  IN IF st.raised THEN Raise(st.exc) ELSE Return(st.cycles)

\* str(task.get('id', all_tasks.index(task)))
DependentId(all_tasks, t) ==
  IF t.id.t = "missing" THEN ToString(ListIndex(all_tasks, t)) ELSE PyStr(t.id)

\* Lines 207-211.
RECURSIVE DirectDependents(_, _, _)
DirectDependents(tid, all_tasks, i) ==
  IF i = 0 THEN {}
  ELSE DirectDependents(tid, all_tasks, i - 1)
         \cup (IF SeqContains(DepStrs(all_tasks[i]), tid)
               THEN {DependentId(all_tasks, all_tasks[i])} ELSE {})

\* list(dependents): the elements of the set in some order.
RECURSIVE SetToSeq(_)
SetToSeq(S) == IF S = {} THEN <<>> ELSE LET x == CHOOSE x \in S : TRUE IN <<x>> \o SetToSeq(S \ {x})

\* Mutant of BfsScan: a dependent is queued whether or not it is in
\* dependents already.
RECURSIVE BfsScanRequeue(_, _, _, _)
BfsScanRequeue(current, all_tasks, i, st) ==
  IF i > Len(all_tasks) THEN st
  ELSE BfsScanRequeue(current, all_tasks, i + 1,
                      IF SeqContains(DepStrs(all_tasks[i]), current)
                      THEN [dependents |-> st.dependents
                                             \cup {DependentId(all_tasks, all_tasks[i])},
                            queue |-> Append(st.queue, DependentId(all_tasks, all_tasks[i]))]
                      ELSE st)

\* Lines 217-223: one pass of the for loop over all_tasks from task i on.
RECURSIVE BfsScan(_, _, _, _)
BfsScan(current, all_tasks, i, st) ==
  IF i > Len(all_tasks) THEN st
  ELSE LET dependent_id == DependentId(all_tasks, all_tasks[i])
       IN BfsScan(current, all_tasks, i + 1,
                  IF SeqContains(DepStrs(all_tasks[i]), current)
                     /\ dependent_id \notin st.dependents
                  THEN [dependents |-> st.dependents \cup {dependent_id},
                        queue |-> Append(st.queue, dependent_id)]
                  ELSE st)

\* Mutant of Bfs: the direct dependents only, the queue is never processed.
BfsDirectOnly(all_tasks, st) == st

\* Lines 215-223.
RECURSIVE Bfs(_, _)
Bfs(all_tasks, st) ==
  IF st.queue = <<>> THEN st
  ELSE Bfs(all_tasks,
           BfsScan(Head(st.queue), all_tasks, 1,
                   [dependents |-> st.dependents, queue |-> Tail(st.queue)]))

\* count_blocking_tasks(task_id, all_tasks)
count_blocking_tasks(tid, all_tasks) ==
  LET direct == DirectDependents(tid, all_tasks, Len(all_tasks))
  IN Cardinality(Bfs(all_tasks, [dependents |-> direct, queue |-> SetToSeq(direct)]).dependents)

(***************************************************************************)
(* Strategies and weights                                                  *)
(***************************************************************************)
UpperCase ==
  <<"A", "B", "C", "D", "E", "F", "G", "H", "I", "J", "K", "L", "M",
    "N", "O", "P", "Q", "R", "S", "T", "U", "V", "W", "X", "Y", "Z">>
LowerCase ==
  <<"a", "b", "c", "d", "e", "f", "g", "h", "i", "j", "k", "l", "m",
    "n", "o", "p", "q", "r", "s", "t", "u", "v", "w", "x", "y", "z">>
\* str.lower()
StrLower(s) ==
  [i \in 1..Len(s) |->
     IF \E k \in 1..26 : UpperCase[k] = s[i]
     THEN LowerCase[CHOOSE k \in 1..26 : UpperCase[k] = s[i]]
     ELSE s[i]]

\* Lines 26-31: the values of the enum SortingStrategy.
SMART_BALANCE == <<"s", "m", "a", "r", "t", "_", "b", "a", "l", "a", "n", "c", "e">>
FASTEST_WINS == <<"f", "a", "s", "t", "e", "s", "t", "_", "w", "i", "n", "s">>
HIGH_IMPACT == <<"h", "i", "g", "h", "_", "i", "m", "p", "a", "c", "t">>
DEADLINE_DRIVEN == <<"d", "e", "a", "d", "l", "i", "n", "e", "_", "d", "r", "i", "v", "e", "n">>
SortingStrategy == {SMART_BALANCE, FASTEST_WINS, HIGH_IMPACT, DEADLINE_DRIVEN}

\* Lines 56-61, in hundredths.
STRATEGY_WEIGHTS(st) ==
  CASE st = SMART_BALANCE ->
         [urgency |-> 30, importance |-> 35, effort |-> 15, dependency |-> 20]
    [] st = FASTEST_WINS ->
         [urgency |-> 15, importance |-> 15, effort |-> 55, dependency |-> 15]
    [] st = HIGH_IMPACT ->
         [urgency |-> 15, importance |-> 60, effort |-> 10, dependency |-> 15]
    [] st = DEADLINE_DRIVEN ->
         [urgency |-> 60, importance |-> 20, effort |-> 5, dependency |-> 15]

\* Lines 56-61: the dict STRATEGY_WEIGHTS as the module defines it.
WeightsTable == [st \in SortingStrategy |-> STRATEGY_WEIGHTS(st)]

\* Mutant of normalize: no fallback when the total is 0.
NormalizeNoFallback(w) ==
  [urgency |-> w.urgency, importance |-> w.importance, effort |-> w.effort,
   dependency |-> w.dependency,
   den |-> w.urgency + w.importance + w.effort + w.dependency]

\* StrategyWeights.normalize(): each weight over the total, kept as the
\* fraction num / den; 0.25 each when the total is 0.
normalize(w) ==
  LET total == w.urgency + w.importance + w.effort + w.dependency
  IN IF total = 0
     THEN [urgency |-> 1, importance |-> 1, effort |-> 1, dependency |-> 1, den |-> 4]
     ELSE [urgency |-> w.urgency, importance |-> w.importance, effort |-> w.effort,
           dependency |-> w.dependency, den |-> total]

(***************************************************************************)
(* PriorityScorer                                                          *)
(***************************************************************************)
\* A score in units of 1/10000.
Score(units) == units * 10000

\* round(num / den), ties to the nearest even integer, for num >= 0, den > 0.
RoundHalfEven(num, den) ==
  LET q == num \div den
      r == num % den
  IN IF 2 * r > den \/ (2 * r = den /\ q % 2 = 1) THEN q + 1 ELSE q

\* round(x, 2) of a score, in hundredths.
Round2(x) == RoundHalfEven(x, 100)

\* An explanation string: its text and the number formatted into it.
Expl(text, n) == [text |-> text, n |-> n]

\* Mutant of calculate_urgency_score: the step of "within 3 days" leaves out
\* the third day.
UrgencyThirdDayLate(due, today_arg, clock) ==
  LET today_ == IF today_arg.t = "none" THEN clock ELSE today_arg
      days_until_due == due.n - today_.n
      days_overdue == -days_until_due
      score == IF due.t = "none" THEN Score(30)
               ELSE IF days_until_due < 0
                 THEN (IF Score(100) + days_overdue * Score(5) > Score(150)
                       THEN Score(150) ELSE Score(100) + days_overdue * Score(5))
               ELSE IF days_until_due = 0 THEN Score(95)
               ELSE IF days_until_due = 1 THEN Score(85)
               ELSE IF days_until_due < 3 THEN Score(75)
               ELSE IF days_until_due <= 7 THEN Score(60)
               ELSE IF days_until_due <= 14 THEN Score(40)
               ELSE IF days_until_due <= 30 THEN Score(25)
               ELSE Score(10)
  IN [score |-> score, expl |-> Expl("", 0)]

\* Lines 261-287.  clock is date.today(), used when today is None.
calculate_urgency_score(due, today_arg, clock) ==
  LET today_ == IF today_arg.t = "none" THEN clock ELSE today_arg
      days_until_due == due.n - today_.n
      days_overdue == -days_until_due
  IN IF due.t = "none"
       THEN [score |-> Score(30), expl |-> Expl("No due date set - moderate priority", 0)]
     ELSE IF days_until_due < 0
       THEN [score |-> IF Score(100) + days_overdue * Score(5) > Score(150)
                       THEN Score(150) ELSE Score(100) + days_overdue * Score(5),
             expl |-> Expl("OVERDUE by %d day(s) - critical priority", days_overdue)]
     ELSE IF days_until_due = 0
       THEN [score |-> Score(95), expl |-> Expl("Due TODAY - very high urgency", 0)]
     ELSE IF days_until_due = 1
       THEN [score |-> Score(85), expl |-> Expl("Due TOMORROW - high urgency", 0)]
     ELSE IF days_until_due <= 3
       THEN [score |-> Score(75), expl |-> Expl("Due in %d days - urgent", days_until_due)]
     ELSE IF days_until_due <= 7
       THEN [score |-> Score(60),
             expl |-> Expl("Due in %d days - approaching deadline", days_until_due)]
     ELSE IF days_until_due <= 14
       THEN [score |-> Score(40),
             expl |-> Expl("Due in %d days - moderate urgency", days_until_due)]
     ELSE IF days_until_due <= 30
       THEN [score |-> Score(25), expl |-> Expl("Due in %d days - low urgency", days_until_due)]
     ELSE [score |-> Score(10), expl |-> Expl("Due in %d days - not urgent", days_until_due)]

\* Lines 298-311.
calculate_importance_score(importance) ==
  [score |-> importance * Score(10),
   expl |-> Expl(IF importance >= 9 THEN "Critical importance (%d/10)"
                 ELSE IF importance >= 7 THEN "High importance (%d/10)"
                 ELSE IF importance >= 5 THEN "Medium importance (%d/10)"
                 ELSE IF importance >= 3 THEN "Low importance (%d/10)"
                 ELSE "Minimal importance (%d/10)", importance)]

\* math.log2(x) for x >= 1, x and the result in units of 1/1000000: the
\* integer part by halving, then one binary digit of the fraction per
\* squaring.
SquareFixed(x) ==
  LET h == x \div 1000
      l == x % 1000
  IN h * h + (2 * h * l) \div 1000 + (l * l) \div 1000000
RECURSIVE Log2Frac(_, _, _)
Log2Frac(x, bit, bits) ==
  IF bits = 0 THEN 0
  ELSE LET sq == SquareFixed(x)
       IN IF sq >= 2000000
          THEN 1000000 \div bit + Log2Frac(sq \div 2, 2 * bit, bits - 1)
          ELSE Log2Frac(sq, 2 * bit, bits - 1)
RECURSIVE Log2(_)
Log2(x) == IF x >= 2000000 THEN 1000000 + Log2(x \div 2) ELSE Log2Frac(x, 2, 20)

\* Lines 334-352.  A nan estimate fails every comparison: min(100.0, nan) is
\* 100.0, and the level falls through to the last branch.
EffortResult(hours, raw) ==
  [score |-> IF hours.t = "float" /\ raw < Score(100)
             THEN (IF Score(5) > raw THEN Score(5) ELSE raw)
             ELSE Score(100),
      expl |-> Expl(IF hours.t = "float" /\ hours.n < 10 THEN "Quick win - under 1 hour"
                    ELSE IF hours.t = "float" /\ hours.n <= 20 THEN "Short task - %.1f hours"
                    ELSE IF hours.t = "float" /\ hours.n <= 40 THEN "Medium task - %.1f hours"
                    ELSE IF hours.t = "float" /\ hours.n <= 80 THEN "Half-day task - %.1f hours"
                    ELSE "Large task - %.1f hours",
                    IF hours.t = "float" THEN hours.n ELSE 0)]
EffortOf(hours) ==
  EffortResult(hours, Score(100) - (20 * Log2((hours.n + 10) * 100000)) \div 100)
calculate_effort_score(estimated_hours) ==
  EffortOf(IF FloatLeZero(estimated_hours) THEN Float(5) ELSE estimated_hours)

\* Lines 363-376.
DependencyResult(blocking_count) ==
  [score |-> IF blocking_count * Score(20) < Score(100)
             THEN blocking_count * Score(20) ELSE Score(100),
   expl |-> Expl(IF blocking_count = 0 THEN "No dependent tasks"
                 ELSE IF blocking_count = 1 THEN "Blocks 1 other task"
                 ELSE "Blocks %d other tasks", blocking_count)]
calculate_dependency_score(tid, all_tasks) ==
  DependencyResult(count_blocking_tasks(tid, all_tasks))

\* Lines 418-431: the factors named in the summary.
PrimaryFactors(urgency, importance, effort, dependency) ==
  (IF urgency >= Score(75) THEN <<"urgent deadline">> ELSE <<>>)
    \o (IF importance >= Score(70) THEN <<"high importance">> ELSE <<>>)
    \o (IF effort >= Score(70) THEN <<"quick win">> ELSE <<>>)
    \o (IF dependency >= Score(40) THEN <<"blocks other tasks">> ELSE <<>>)

\* Lines 428-431: the summary of the explanations.
Summary(primary_factors) ==
  [text |-> IF primary_factors # <<>> THEN "Prioritized due to: "
            ELSE "Standard priority - balanced factors",
   factors |-> primary_factors]

\* Lines 409-455: the result of calculate_priority_score from the four
\* (score, explanation) pairs.
PriorityResult(strat, weights, urgency, importance, effort, dependency) ==
  [priority_score |->
     RoundHalfEven(urgency.score * weights.urgency + importance.score * weights.importance
                     + effort.score * weights.effort + dependency.score * weights.dependency,
                   weights.den * 100),
   component_scores |-> [urgency |-> Round2(urgency.score),
                         importance |-> Round2(importance.score),
                         effort |-> Round2(effort.score),
                         dependency |-> Round2(dependency.score)],
   explanations |-> [urgency |-> urgency.expl,
                     importance |-> importance.expl,
                     effort |-> effort.expl,
                     dependency |-> dependency.expl,
                     summary |-> Summary(PrimaryFactors(urgency.score, importance.score,
                                                        effort.score, dependency.score))],
   weights_used |-> [urgency |-> RoundHalfEven(weights.urgency * 100, weights.den),
                     importance |-> RoundHalfEven(weights.importance * 100, weights.den),
                     effort |-> RoundHalfEven(weights.effort * 100, weights.den),
                     dependency |-> RoundHalfEven(weights.dependency * 100, weights.den)],
   strategy |-> strat]

\* Lines 393-455: calculate_priority_score(task, all_tasks, task_index) of a
\* scorer with the given strategy and normalized weights.  The figures of
\* the result are rounded to 2 decimals (hundredths).
calculate_priority_score(strat, weights, t, all_tasks, task_index, clock) ==
  PriorityResult(strat, weights,
                 calculate_urgency_score(t.due_date, None, clock),
                 calculate_importance_score(t.importance),
                 calculate_effort_score(t.estimated_hours),
                 calculate_dependency_score(TaskId(t, task_index), all_tasks))

(***************************************************************************)
(* analyze_tasks and suggest_tasks                                         *)
(***************************************************************************)
\* The decimal digits of n, padded with zeros to the given width.
RECURSIVE ZeroPadded(_, _)
ZeroPadded(n, width) ==
  IF width = 0 THEN <<>> ELSE Append(ZeroPadded(n \div 10, width - 1), Digits[(n % 10) + 1])

\* date.isoformat() of the date with the given ordinal: "YYYY-MM-DD".
IsoFormat(ordinal) ==
  LET y == CHOOSE y \in (ordinal \div 366)..(ordinal \div 365 + 1) :
             DaysBeforeYear(y) < ordinal /\ ordinal <= DaysBeforeYear(y + 1)
      day_of_year == ordinal - DaysBeforeYear(y)
      m == CHOOSE m \in 1..12 :
             /\ DaysBeforeMonth(y, m) < day_of_year
             /\ day_of_year <= DaysBeforeMonth(y, m) + DaysInMonth(y, m)
      d == day_of_year - DaysBeforeMonth(y, m)
  IN ZeroPadded(y, 4) \o <<"-">> \o ZeroPadded(m, 2) \o <<"-">> \o ZeroPadded(d, 2)

\* Lines 480-483: SortingStrategy(strategy.lower()), smart_balance when the
\* name is no value of the enum.
ParseStrategy(name) ==
  IF StrLower(name) \in SortingStrategy THEN StrLower(name) ELSE SMART_BALANCE

\* Lines 493-501: what analyze_tasks appends to validated_tasks for the task
\* at position i: the sanitized record and its original_index.
Validated(sanitized, i) == sanitized @@ [original_index |-> i]

\* Lines 492-501: validate_task on the tasks from position i on.  The state
\* is [raised, exc, validated_tasks, validation_errors].
ValidateStep(st, r, i) ==
  IF r.raised THEN [st EXCEPT !.raised = TRUE, !.exc = r.exc]
  ELSE [st EXCEPT
          !.validation_errors =
            IF r.v.is_valid THEN @
            ELSE Append(@, [task_index |-> i - 1,
                            task_title |-> r.v.sanitized.title,
                            errors |-> r.v.errors]),
          !.validated_tasks = Append(@, Validated(r.v.sanitized, i - 1))]
RECURSIVE ValidateAll(_, _, _)
ValidateAll(ts, i, st) ==
  IF i > Len(ts) \/ st.raised THEN st
  ELSE ValidateAll(ts, i + 1, ValidateStep(st, validate_task(ts[i]), i))

\* Lines 509-523: the scored record of the task at position i (one-based).
ScoredRecord(t, score_result) ==
  [t EXCEPT !.due_date = IF t.due_date.t = "date" THEN Str(IsoFormat(t.due_date.n)) ELSE @]
    @@ [priority_score |-> score_result.priority_score,
        component_scores |-> score_result.component_scores,
        explanations |-> score_result.explanations,
        weights_used |-> score_result.weights_used]
ScoredTask(strat, weights, validated_tasks, i, clock) ==
  ScoredRecord(validated_tasks[i],
               calculate_priority_score(strat, weights, validated_tasks[i],
                                        validated_tasks, i - 1, clock))

\* Mutant of InsertByScore: the task goes before the tasks of equal score.
InsertBeforeEqual(sorted, t) ==
  LET before == SelectSeq(sorted, LAMBDA x : x.priority_score > t.priority_score)
      after == SelectSeq(sorted, LAMBDA x : x.priority_score <= t.priority_score)
  IN before \o <<t>> \o after

\* Line 526: list.sort(key=priority_score, reverse=True) is stable: a task is
\* placed after every task of greater or equal score that preceded it.
InsertByScore(sorted, t) ==
  LET before == SelectSeq(sorted, LAMBDA x : x.priority_score >= t.priority_score)
      after == SelectSeq(sorted, LAMBDA x : x.priority_score < t.priority_score)
  IN before \o <<t>> \o after
RECURSIVE SortByScore(_, _)
SortByScore(ts, i) ==
  IF i = 0 THEN <<>> ELSE InsertByScore(SortByScore(ts, i - 1), ts[i])

\* Mutant of AddRank: the ranks count from 0.
AddRankFromZero(ts) == [k \in 1..Len(ts) |-> ts[k] @@ [rank |-> k - 1]]

\* Lines 529-530.
AddRank(ts) == [k \in 1..Len(ts) |-> ts[k] @@ [rank |-> k]]

\* analyze_tasks(tasks, strategy): the result dict, or the exception.
\* Lines 507-523: the scored records, in input order.
ScoreAll(sort_strategy, weights, validated_tasks, clock) ==
  [i \in 1..Len(validated_tasks) |->
     ScoredTask(sort_strategy, weights, validated_tasks, i, clock)]

\* Lines 526-538: sort, rank and the result dict.
AnalysisResult(sort_strategy, validation_errors, circular_deps, scored_tasks) ==
  [tasks |-> AddRank(SortByScore(scored_tasks, Len(scored_tasks))),
   circular_dependencies |-> circular_deps,
   validation_errors |-> validation_errors,
   strategy_used |-> sort_strategy,
   total_tasks |-> Len(scored_tasks)]

\* Lines 504-538, after the validation loop.
AnalyzeValidated(sort_strategy, validation, circular_deps, clock) ==
  IF circular_deps.raised THEN Raise(circular_deps.exc)
  ELSE Return(AnalysisResult(sort_strategy, validation.validation_errors, circular_deps.v,
                             ScoreAll(sort_strategy,
                                      normalize(strategy_weights[sort_strategy]),
                                      validation.validated_tasks, clock)))

\* Lines 485-538, with the strategy parsed.
AnalyzeWith(sort_strategy, validation, clock) ==
  IF validation.raised THEN Raise(validation.exc)
  ELSE AnalyzeValidated(sort_strategy, validation,
                        detect_circular_dependencies(validation.validated_tasks), clock)

analyze_tasks(ts, strategy_name, clock) ==
  AnalyzeWith(ParseStrategy(strategy_name),
              ValidateAll(ts, 1, [raised |-> FALSE, exc |-> "",
                                  validated_tasks |-> <<>>, validation_errors |-> <<>>]),
              clock)

\* tasks[:count]
SliceTo(s, n) ==
  IF n >= 0 THEN SubSeq(s, 1, IF n < Len(s) THEN n ELSE Len(s))
  ELSE SubSeq(s, 1, IF Len(s) + n > 0 THEN Len(s) + n ELSE 0)

\* A reason string: the marker put before the explanation it repeats.
Reason(marker, expl) == [marker |-> marker, text |-> expl.text, n |-> expl.n]

\* Lines 564-584.
Reasons(t) ==
  LET scores == t.component_scores
      explanations == t.explanations
      reasons ==
        (IF scores.urgency >= 7500 THEN <<Reason("red", explanations.urgency)>>
         ELSE IF scores.urgency >= 5000 THEN <<Reason("yellow", explanations.urgency)>>
         ELSE <<>>)
        \o (IF scores.importance >= 7000 THEN <<Reason("star", explanations.importance)>>
            ELSE <<>>)
        \o (IF scores.effort >= 7000 THEN <<Reason("bolt", explanations.effort)>> ELSE <<>>)
        \o (IF scores.dependency >= 2000 THEN <<Reason("link", explanations.dependency)>>
            ELSE <<>>)
  IN IF reasons = <<>>
     THEN <<[marker |-> "", text |-> explanations.summary.text,
             n |-> Len(explanations.summary.factors)]>>
     ELSE reasons

\* Lines 586-599.
Suggestion(t, i) ==
  [rank |-> i,
   task |-> [id |-> IF t.id.t = "missing" THEN Int_(t.original_index) ELSE t.id,
             title |-> t.title,
             due_date |-> t.due_date,
             estimated_hours |-> t.estimated_hours,
             importance |-> t.importance],
   priority_score |-> t.priority_score,
   recommendation |-> [rank |-> i, title |-> t.title],
   reasons |-> Reasons(t),
   component_scores |-> t.component_scores]

\* suggest_tasks(tasks, count, strategy): the result dict, or the exception.
\* Mutant of SuggestResult: the warning is given only when a suggested task
\* is in a reported cycle.
SuggestResultWarnTop(analysis, top_tasks) ==
  [suggestions |-> [i \in 1..Len(top_tasks) |-> Suggestion(top_tasks[i], i)],
   strategy_used |-> analysis.strategy_used,
   total_tasks_analyzed |-> analysis.total_tasks,
   warning |-> IF \E c \in 1..Len(analysis.circular_dependencies) :
                    \E i \in 1..Len(top_tasks) :
                      SeqContains(analysis.circular_dependencies[c],
                                  TaskId(top_tasks[i], top_tasks[i].original_index))
               THEN Int_(Len(analysis.circular_dependencies))
               ELSE None,
   message |-> Len(top_tasks)]

\* Lines 559-614: the suggestions for the top tasks and the result dict.
SuggestResult(analysis, top_tasks) ==
  [suggestions |-> [i \in 1..Len(top_tasks) |-> Suggestion(top_tasks[i], i)],
   strategy_used |-> analysis.strategy_used,
   total_tasks_analyzed |-> analysis.total_tasks,
   warning |-> IF analysis.circular_dependencies # <<>>
               THEN Int_(Len(analysis.circular_dependencies))
               ELSE None,
   message |-> Len(top_tasks)]

SuggestFrom(analysis, n) ==
  IF analysis.raised THEN analysis
  ELSE Return(SuggestResult(analysis.v, SliceTo(analysis.v.tasks, n)))

suggest_tasks(ts, n, strategy_name, clock) ==
  SuggestFrom(analyze_tasks(ts, strategy_name, clock), n)

(***************************************************************************)
(* Bounds and input sets                                                   *)
(***************************************************************************)
\* The largest batch, and the most dependency entries a batch holds in all,
\* of the calls to the DependencyAnalyzer.
MaxTasks == 3
MaxEdges == 3

\* A raw task record with every key absent.
EmptyTask ==
  [id |-> Missing, title |-> Missing, due_date |-> Missing,
   estimated_hours |-> Missing, importance |-> Missing, dependencies |-> Missing]

\* The validated form of a well-formed task that has the given id and
\* dependencies.
PlainTask(idv, deps, i) ==
  Validated(validate_task([EmptyTask EXCEPT !.id = idv,
                                            !.title = Str(<<"T">>),
                                            !.dependencies = List(deps)]).v.sanitized, i)

\* The dependency lists of n tasks that hold at most e entries in all, each
\* entry drawn from ids.
SeqsUpTo(ids, e) == UNION {[1..k -> ids] : k \in 0..e}
RECURSIVE DepAssign(_, _, _)
DepAssign(n, e, ids) ==
  IF n = 0 THEN {<<>>}
  ELSE UNION {{<<l>> \o rest : rest \in DepAssign(n - 1, e - Len(l), ids)} :
                l \in SeqsUpTo(ids, e)}

\* Batches as the DependencyAnalyzer receives them: either every task has
\* the explicit id 1..n, or none has an id and the ids are the positions
\* 0..n-1; a dependency entry is one of 0..n, so it may name no task.
GraphBatch(n, explicit, deps) ==
  [i \in 1..n |-> PlainTask(IF explicit THEN Int_(i) ELSE Missing, deps[i], i - 1)]

NoRet == Return(0)
NoWeights == [urgency |-> 0, importance |-> 0, effort |-> 0, dependency |-> 0]

(***************************************************************************)
(* Calls to the DependencyAnalyzer                                         *)
(***************************************************************************)
InitGraph ==
  /\ pc = "call"
  /\ \E n \in 1..MaxTasks, explicit \in BOOLEAN :
       \E deps \in DepAssign(n, MaxEdges, 0..n) : tasks = GraphBatch(n, explicit, deps)
  /\ \/ op = "detect_circular_dependencies" /\ task_id = ""
     \/ op = "count_blocking_tasks" /\ task_id \in {ToString(k) : k \in 0..Len(tasks)}
  /\ task = EmptyTask
  /\ strategy = <<>>
  /\ count = 0
  /\ due_date = None
  /\ today = None
  /\ now = None
  /\ ret = NoRet
  /\ weights_arg = NoWeights
  /\ strategy_weights = WeightsTable
  /\ history = <<>>
  /\ dependents = {}
  /\ queue = <<>>

DetectCircularDependencies ==
  /\ pc = "call"
  /\ op = "detect_circular_dependencies"
  /\ ret' = detect_circular_dependencies(tasks)
  /\ pc' = "done"
  /\ UNCHANGED <<op, task, tasks, task_id, strategy, count, due_date, today, now, weights_arg>>
  /\ UNCHANGED <<strategy_weights, history, dependents, queue>>

CountBlockingTasks ==
  /\ pc = "call"
  /\ op = "count_blocking_tasks"
  /\ ret' = Return(count_blocking_tasks(task_id, tasks))
  /\ pc' = "done"
  /\ UNCHANGED <<op, task, tasks, task_id, strategy, count, due_date, today, now, weights_arg>>
  /\ UNCHANGED <<strategy_weights, history, dependents, queue>>

NextGraph == DetectCircularDependencies \/ CountBlockingTasks

SpecGraph == InitGraph /\ [][NextGraph]_vars

(***************************************************************************)
(* detect_circular_dependencies on batches made of two separate groups     *)
(***************************************************************************)
\* A batch of two groups of tasks, the first with the ids 1..na and the
\* second with the ids na+1..na+nb; every dependency entry names a task of
\* the same group, so no edge joins the groups.  A group holds up to
\* MaxTasks tasks and MaxEdges entries, the batch up to MaxTasks + 1 tasks.
InitDisjoint ==
  /\ pc = "call"
  /\ op = "detect_circular_dependencies"
  /\ \E na, nb \in 1..MaxTasks :
       /\ na + nb <= MaxTasks + 1
       /\ \E da \in DepAssign(na, MaxEdges, 1..na) :
            \E db \in DepAssign(nb, MaxEdges, (na + 1)..(na + nb)) :
              tasks = GraphBatch(na + nb, TRUE, da \o db)
  /\ task_id = ""
  /\ task = EmptyTask
  /\ strategy = <<>>
  /\ count = 0
  /\ due_date = None
  /\ today = None
  /\ now = None
  /\ ret = NoRet
  /\ weights_arg = NoWeights
  /\ strategy_weights = WeightsTable
  /\ history = <<>>
  /\ dependents = {}
  /\ queue = <<>>

NextDisjoint == DetectCircularDependencies

SpecDisjoint == InitDisjoint /\ [][NextDisjoint]_vars

(***************************************************************************)
(* count_blocking_tasks, one turn of its while loop at a time              *)
(***************************************************************************)
\* list(S): the elements of the set, in any order.
Orders(S) ==
  {q \in [1..Cardinality(S) -> S] : \A i, j \in 1..Cardinality(S) : q[i] = q[j] => i = j}

InitBfs ==
  /\ pc = "call"
  /\ op = "count_blocking_tasks"
  /\ \E n \in 1..MaxTasks, explicit \in BOOLEAN :
       \E deps \in DepAssign(n, MaxEdges, 0..n) : tasks = GraphBatch(n, explicit, deps)
  /\ task_id \in {ToString(k) : k \in 0..Len(tasks)}
  /\ task = EmptyTask
  /\ strategy = <<>>
  /\ count = 0
  /\ due_date = None
  /\ today = None
  /\ now = None
  /\ ret = NoRet
  /\ weights_arg = NoWeights
  /\ strategy_weights = WeightsTable
  /\ history = <<>>
  /\ dependents = {}
  /\ queue = <<>>

\* Lines 204-214: the direct dependents, and the queue made of them.
BfsStart ==
  /\ pc = "call"
  /\ op = "count_blocking_tasks"
  /\ dependents' = DirectDependents(task_id, tasks, Len(tasks))
  /\ queue' \in Orders(dependents')
  /\ pc' = "while"
  /\ UNCHANGED <<op, task, tasks, task_id, strategy, count, due_date, today, now, weights_arg>>
  /\ UNCHANGED <<ret, strategy_weights, history>>

\* Lines 215-223: one turn of the while loop: pop the head, scan all_tasks.
BfsTurn ==
  /\ pc = "while"
  /\ queue # <<>>
  /\ dependents' = BfsScan(Head(queue), tasks, 1,
                           [dependents |-> dependents, queue |-> Tail(queue)]).dependents
  /\ queue' = BfsScan(Head(queue), tasks, 1,
                      [dependents |-> dependents, queue |-> Tail(queue)]).queue
  /\ UNCHANGED <<pc, ret>>
  /\ UNCHANGED <<op, task, tasks, task_id, strategy, count, due_date, today, now, weights_arg>>
  /\ UNCHANGED <<strategy_weights, history>>

\* Lines 215 and 225: the queue is empty, the count is returned.
BfsReturn ==
  /\ pc = "while"
  /\ queue = <<>>
  /\ ret' = Return(Cardinality(dependents))
  /\ pc' = "done"
  /\ UNCHANGED <<op, task, tasks, task_id, strategy, count, due_date, today, now, weights_arg>>
  /\ UNCHANGED <<strategy_weights, history, dependents, queue>>

NextBfs == BfsStart \/ BfsTurn \/ BfsReturn

\* The call runs on its own thread of control: a turn that can be taken is
\* taken.
SpecBfs == InitBfs /\ [][NextBfs]_vars /\ WF_vars(NextBfs)

(***************************************************************************)
(* Calls to TaskValidator.validate_task                                    *)
(***************************************************************************)
\* The raw values a field of a task record is drawn from: absent, None, and
\* well-formed and malformed values of the types a decoded request can hold.
RawTitles ==
  {Missing, None, Int_(5), Str(<<>>), Str(<<" ", " ">>), Str(<<" ", "A", " ">>)}
RawDueDates ==
  {Missing, None, Int_(5), Int_(0), Str(<<>>),
   Str(<<"2", "0", "2", "5", "-", "1", "2", "-", "0", "1">>),
   Str(<<"2", "0", "2", "5", "-", "0", "2", "-", "3", "0">>),
   Str(<<"n", "o", "t", "-", "a", "-", "d", "a", "t", "e">>),
   Date(Ordinal(2025, 12, 1))}
RawHours ==
  {Missing, None, Int_(3), Int_(0), Int_(-5), Int_(1000), Float(5), Float(10005),
   NaN, Inf, Bool(TRUE), Str(<<"2", ".", "5">>), Str(<<"n", "a", "n">>),
   Str(<<"a", "b", "c">>), List(<<>>)}
RawImportances ==
  {Missing, None, Int_(7), Int_(15), Int_(-5), Int_(0), Float(79), NaN, Inf,
   Str(<<"7">>), Str(<<"7", ".", "5">>), List(<<>>)}
RawDependencies ==
  {Missing, None, Int_(1), List(<<>>), List(<<1, 2>>)}
RawIds == {Missing, Int_(1)}

InitValidate ==
  /\ pc = "call"
  /\ op = "validate_task"
  /\ \E title \in RawTitles, due \in RawDueDates, hours \in RawHours :
       \E imp \in RawImportances, deps \in RawDependencies, idv \in RawIds :
         task = [id |-> idv, title |-> title, due_date |-> due,
                 estimated_hours |-> hours, importance |-> imp, dependencies |-> deps]
  /\ tasks = <<>>
  /\ task_id = ""
  /\ strategy = <<>>
  /\ count = 0
  /\ due_date = None
  /\ today = None
  /\ now = None
  /\ ret = NoRet
  /\ weights_arg = NoWeights
  /\ strategy_weights = WeightsTable
  /\ history = <<>>
  /\ dependents = {}
  /\ queue = <<>>

ValidateTask ==
  /\ pc = "call"
  /\ op = "validate_task"
  /\ ret' = validate_task(task)
  /\ pc' = "done"
  /\ UNCHANGED <<op, task, tasks, task_id, strategy, count, due_date, today, now, weights_arg>>
  /\ UNCHANGED <<strategy_weights, history, dependents, queue>>

NextValidate == ValidateTask

SpecValidate == InitValidate /\ [][NextValidate]_vars

ValidateDone == pc = "done" /\ op = "validate_task"

\* C5: validate_task never throws: whatever the fields of the raw record, it
\* returns (is_valid, errors, sanitized), and is_valid is true exactly when
\* the error list is empty.
C5_ValidateNeverThrows ==
  ValidateDone =>
    (~ret.raised /\ (ret.v.is_valid <=> ret.v.errors = <<>>))

\* C6: every sanitized task has a non-empty title, estimated_hours in
\* (0, 1000], an importance in 1..10 and a list of dependencies.
C6_SanitizedInvariant ==
  (ValidateDone /\ ~ret.raised) =>
    LET t == ret.v.sanitized
    IN /\ t.title # <<>>
       /\ t.estimated_hours.t = "float"
       /\ t.estimated_hours.n > 0 /\ t.estimated_hours.n <= 10000
       /\ t.importance \in 1..10
       /\ t.dependencies.t = "list"

(***************************************************************************)
(* Calls to PriorityScorer.calculate_urgency_score                         *)
(***************************************************************************)
\* The due dates lie at most MaxDays days before or after the day of the call.
MaxDays == 35

\* The day of the calls: 2025-11-30.
CallDay == Ordinal(2025, 11, 30)

InitUrgency ==
  /\ pc = "call"
  /\ op = "calculate_urgency_score"
  /\ now = Date(CallDay)
  /\ today \in {None, Date(CallDay), Date(CallDay - 1)}
  /\ due_date \in {None} \cup {Date(CallDay + d) : d \in (-MaxDays)..MaxDays}
  /\ task = EmptyTask
  /\ tasks = <<>>
  /\ task_id = ""
  /\ strategy = <<>>
  /\ count = 0
  /\ ret = NoRet
  /\ weights_arg = NoWeights
  /\ strategy_weights = WeightsTable
  /\ history = <<>>
  /\ dependents = {}
  /\ queue = <<>>

CalculateUrgencyScore ==
  /\ pc = "call"
  /\ op = "calculate_urgency_score"
  /\ ret' = Return(calculate_urgency_score(due_date, today, now))
  /\ pc' = "done"
  /\ UNCHANGED <<op, task, tasks, task_id, strategy, count, due_date, today, now, weights_arg>>
  /\ UNCHANGED <<strategy_weights, history, dependents, queue>>

NextUrgency == CalculateUrgencyScore

SpecUrgency == InitUrgency /\ [][NextUrgency]_vars

(***************************************************************************)
(* Calls to StrategyWeights.normalize                                      *)
(***************************************************************************)
\* The largest weight of a StrategyWeights that is no preset.
MaxWeight == 3

\* normalize is called on a preset, as PriorityScorer.__init__ does (line
\* 241), or on a StrategyWeights of weights up to MaxWeight.
InitWeights ==
  /\ pc = "call"
  /\ op = "normalize"
  /\ strategy_weights = WeightsTable
  /\ \/ /\ strategy \in SortingStrategy
        /\ weights_arg = strategy_weights[strategy]
     \/ /\ strategy = <<>>
        /\ weights_arg \in [{"urgency", "importance", "effort", "dependency"} -> 0..MaxWeight]
  /\ task = EmptyTask
  /\ tasks = <<>>
  /\ task_id = ""
  /\ count = 0
  /\ due_date = None
  /\ today = None
  /\ now = None
  /\ ret = NoRet
  /\ history = <<>>
  /\ dependents = {}
  /\ queue = <<>>

Normalize ==
  /\ pc = "call"
  /\ op = "normalize"
  /\ ret' = Return(normalize(weights_arg))
  /\ pc' = "done"
  /\ UNCHANGED <<op, task, tasks, task_id, strategy, count, due_date, today, now, weights_arg>>
  /\ UNCHANGED <<strategy_weights, history, dependents, queue>>

NextWeights == Normalize

SpecWeights == InitWeights /\ [][NextWeights]_vars

(***************************************************************************)
(* Calls to analyze_tasks and suggest_tasks                                *)
(***************************************************************************)
\* The largest batch given to analyze_tasks and suggest_tasks, and the
\* largest count given to suggest_tasks.
MaxBatch == 3
MaxCount == 4

RawTask(idv, title, due, hours, imp, deps) ==
  [id |-> idv, title |-> title, due_date |-> due, estimated_hours |-> hours,
   importance |-> imp, dependencies |-> deps]

\* The raw tasks a batch is made of.  Tasks 1 and 2 depend on each other and
\* task 3 on task 2 and on itself; the fourth has no id and every field malformed; task 4
\* depends on itself, is overdue and has a nan estimate; task 5 has a null
\* title; tasks 6 and 7 are well-formed, 7 listing 6 and an id of no task.
TaskPool ==
  {RawTask(Int_(1), Str(<<"A">>), Str(<<"2", "0", "2", "5", "-", "1", "1", "-", "3", "0">>), Int_(1), Int_(9), List(<<2>>)),
   RawTask(Int_(2), Str(<<"B">>), Str(<<"2", "0", "2", "5", "-", "1", "2", "-", "3", "0">>), Int_(20), Int_(2), List(<<1>>)),
   RawTask(Int_(3), Str(<<"C">>), Missing, Missing, Missing, List(<<2, 3>>)),
   RawTask(Missing, Missing, Str(<<"n", "o", "t", "-", "a", "-", "d", "a", "t", "e">>), Int_(-5), Str(<<"x">>), None),
   RawTask(Int_(4), Str(<<"D">>), Str(<<"2", "0", "2", "5", "-", "1", "1", "-", "2", "0">>), Str(<<"n", "a", "n">>), Int_(15), List(<<4>>)),
   RawTask(Int_(5), None, Missing, Int_(2), Int_(5), List(<<>>)),
   RawTask(Int_(6), Str(<<" ", "E", " ">>), Str(<<"2", "0", "2", "5", "-", "1", "2", "-", "0", "3">>), Float(5), Int_(7), Missing),
   RawTask(Int_(7), Str(<<"F">>), Missing, Int_(3), Int_(5), List(<<6, 9>>))}

\* The strategy names given: the four presets, a preset in upper case, and a
\* name of no preset.
StrategyNames ==
  {SMART_BALANCE, FASTEST_WINS, HIGH_IMPACT, DEADLINE_DRIVEN,
   <<"F", "A", "S", "T", "E", "S", "T", "_", "W", "I", "N", "S">>, <<"b", "o", "g", "u", "s">>}

InitAnalyze ==
  /\ pc = "call"
  /\ \E n \in 1..MaxBatch : tasks \in [1..n -> TaskPool]
  /\ strategy \in StrategyNames
  /\ \/ op = "analyze_tasks" /\ count = 0
     \/ op = "suggest_tasks" /\ count \in 1..MaxCount
  /\ now = Date(CallDay)
  /\ task = EmptyTask
  /\ task_id = ""
  /\ due_date = None
  /\ today = None
  /\ ret = NoRet
  /\ weights_arg = NoWeights
  /\ strategy_weights = WeightsTable
  /\ history = <<>>
  /\ dependents = {}
  /\ queue = <<>>

\* Mutant of WeightsTableAfter: the scorer leaves its preset zeroed.
WeightsTableZeroed(table, st) == [table EXCEPT ![st] = NoWeights]

\* Lines 239-241 and 42-52: PriorityScorer.__init__ reads
\* STRATEGY_WEIGHTS[strategy] and normalize() returns a new StrategyWeights;
\* nothing is assigned to the dict or to its entries.
WeightsTableAfter(table, st) == table

\* A call as the caller sees it: the arguments, the date, and the outcome.
CallRecord(result) ==
  [op |-> op, tasks |-> tasks, strategy |-> strategy, count |-> count, now |-> now,
   ret |-> result]

\* The input dicts are only read (task.get, lines 79-137; {**task}, line
\* 511), so tasks is left as it is.
AnalyzeTasks ==
  /\ pc = "call"
  /\ op = "analyze_tasks"
  /\ ret' = analyze_tasks(tasks, strategy, now)
  /\ pc' = "done"
  /\ strategy_weights' = WeightsTableAfter(strategy_weights, ParseStrategy(strategy))
  /\ history' = Append(history, CallRecord(ret'))
  /\ UNCHANGED <<op, task, tasks, task_id, strategy, count, due_date, today, now, weights_arg>>
  /\ UNCHANGED <<dependents, queue>>

SuggestTasks ==
  /\ pc = "call"
  /\ op = "suggest_tasks"
  /\ ret' = suggest_tasks(tasks, count, strategy, now)
  /\ pc' = "done"
  /\ strategy_weights' = WeightsTableAfter(strategy_weights, ParseStrategy(strategy))
  /\ history' = Append(history, CallRecord(ret'))
  /\ UNCHANGED <<op, task, tasks, task_id, strategy, count, due_date, today, now, weights_arg>>
  /\ UNCHANGED <<dependents, queue>>

NextAnalyze == AnalyzeTasks \/ SuggestTasks

SpecAnalyze == InitAnalyze /\ [][NextAnalyze]_vars

(***************************************************************************)
(* Sessions: several calls to analyze_tasks and suggest_tasks in a row     *)
(***************************************************************************)
\* The most calls of a session.
MaxCalls == 3

\* The batches of a session: a cycle of two tasks, one due on the day of
\* the first call; and two well-formed tasks, one listing the other.
SessionBatches ==
  {<<RawTask(Int_(1), Str(<<"A">>), Str(IsoFormat(CallDay)), Int_(1), Int_(9), List(<<2>>)),
     RawTask(Int_(2), Str(<<"B">>), Str(IsoFormat(CallDay + 30)), Int_(20), Int_(2),
             List(<<1>>))>>,
   <<RawTask(Int_(6), Str(<<" ", "E", " ">>), Str(IsoFormat(CallDay + 3)), Float(5), Int_(7),
             Missing),
     RawTask(Int_(7), Str(<<"F">>), Missing, Int_(3), Int_(5), List(<<6, 9>>))>>}

\* The arguments of one call of a session, made on the day of the first call
\* or on the next day.
SessionArguments ==
  /\ tasks' \in SessionBatches
  /\ strategy' \in {SMART_BALANCE, DEADLINE_DRIVEN}
  /\ \/ op' = "analyze_tasks" /\ count' = 0
     \/ op' = "suggest_tasks" /\ count' = 1
  /\ now' \in {Date(CallDay), Date(CallDay + 1)}

InitSession ==
  /\ pc = "call"
  /\ tasks \in SessionBatches
  /\ strategy \in {SMART_BALANCE, DEADLINE_DRIVEN}
  /\ \/ op = "analyze_tasks" /\ count = 0
     \/ op = "suggest_tasks" /\ count = 1
  /\ now \in {Date(CallDay), Date(CallDay + 1)}
  /\ task = EmptyTask
  /\ task_id = ""
  /\ due_date = None
  /\ today = None
  /\ ret = NoRet
  /\ weights_arg = NoWeights
  /\ strategy_weights = WeightsTable
  /\ history = <<>>
  /\ dependents = {}
  /\ queue = <<>>

\* The caller makes the next call of the session.
NextCall ==
  /\ pc = "done"
  /\ Len(history) < MaxCalls
  /\ SessionArguments
  /\ pc' = "call"
  /\ ret' = NoRet
  /\ UNCHANGED <<task, task_id, due_date, today, weights_arg>>
  /\ UNCHANGED <<strategy_weights, history, dependents, queue>>

NextSession == AnalyzeTasks \/ SuggestTasks \/ NextCall

SpecSession == InitSession /\ [][NextSession]_vars

\* Two calls with the same arguments on the same date.
SameCall(a, b) ==
  /\ a.op = b.op /\ a.tasks = b.tasks /\ a.strategy = b.strategy
  /\ a.count = b.count /\ a.now = b.now

C14_DueDateErrors ==
  (ValidateDone /\ ~ret.raised /\ task.due_date.t \notin {"missing", "none", "date"}) =>
    LET v == task.due_date
        parseable == v.t = "str" /\ ~FromIsoFormat(v.s).raised
    IN /\ parseable =>
            /\ ret.v.sanitized.due_date = FromIsoFormat(v.s).v
            /\ ~SeqContains(ret.v.errors, ErrDueDate)
       /\ ~parseable =>
            /\ ~ret.v.is_valid
            /\ SeqContains(ret.v.errors, ErrDueDate)
            /\ ret.v.sanitized.due_date = None

(***************************************************************************)
(* The dependency graph of a batch, as the data model defines it           *)
(***************************************************************************)
\* Edge u -> v: task u lists v as a dependency and v is a task of the batch.
Edge(ts, u, v) ==
  /\ v \in GraphIds(ts)
  /\ \E i \in 1..Len(ts) : TaskId(ts[i], i - 1) = u /\ SeqContains(DepStrs(ts[i]), v)

RECURSIVE ReachFrom(_, _)
ReachFrom(ts, S) ==
  LET more == S \cup {v \in GraphIds(ts) : \E u \in S : Edge(ts, u, v)}
  IN IF more = S THEN S ELSE ReachFrom(ts, more)
\* The ids reachable from u along one edge or more.
Reachable(ts, u) == ReachFrom(ts, {v \in GraphIds(ts) : Edge(ts, u, v)})
OnCycle(ts, u) == u \in Reachable(ts, u)
HasCycle(ts) == \E u \in GraphIds(ts) : OnCycle(ts, u)
DistinctIds(ts) ==
  \A i, j \in 1..Len(ts) : TaskId(ts[i], i - 1) = TaskId(ts[j], j - 1) => i = j

\* An ordered list of ids that is a loop of the graph.
GenuineLoop(ts, c) ==
  /\ Len(c) >= 2
  /\ c[1] = c[Len(c)]
  /\ \A k \in 1..(Len(c) - 1) : Edge(ts, c[k], c[k + 1])

\* The positions of the tasks that list tid directly or transitively.
RECURSIVE RequiredBy(_, _)
RequiredBy(ts, P) ==
  LET more == P \cup {i \in 1..Len(ts) :
                        \E j \in P : SeqContains(DepStrs(ts[i]), TaskId(ts[j], j - 1))}
  IN IF more = P THEN P ELSE RequiredBy(ts, more)
TransitiveDependents(ts, tid) ==
  RequiredBy(ts, {i \in 1..Len(ts) : SeqContains(DepStrs(ts[i]), tid)})

DetectDone == pc = "done" /\ op = "detect_circular_dependencies"
CountDone == pc = "done" /\ op = "count_blocking_tasks"

(***************************************************************************)
(* Claims about the DependencyAnalyzer                                     *)
(***************************************************************************)
\* C2: every cycle that detect_circular_dependencies returns is a loop of the
\* dependency graph: its first id is its last id and each consecutive pair
\* (u, v) is an edge, that is u lists v and v is a task of the batch.
C2_CyclesAreGenuine ==
  (DetectDone /\ ~ret.raised) =>
    \A k \in 1..Len(ret.v) : GenuineLoop(tasks, ret.v[k])

\* C3: detect_circular_dependencies yields the empty list when the graph has
\* no cycle, and at least one non-empty cycle when it has one; a task that
\* depends on itself is in a recorded cycle.
C3_CyclesDetected ==
  DetectDone =>
    /\ ~ret.raised
    /\ ~HasCycle(tasks) => ret.v = <<>>
    /\ HasCycle(tasks) => (ret.v # <<>> /\ \A k \in 1..Len(ret.v) : ret.v[k] # <<>>)
    /\ \A u \in GraphIds(tasks) :
         Edge(tasks, u, u) => \E k \in 1..Len(ret.v) : SeqContains(ret.v[k], u)

\* C4: with distinct ids, count_blocking_tasks(t, batch) for a task t of the
\* batch is the number of tasks that list t directly or transitively, each
\* counted once.
C4_BlockingCount ==
  (CountDone /\ DistinctIds(tasks) /\ task_id \in GraphIds(tasks)) =>
    (~ret.raised /\ ret.v = Cardinality(TransitiveDependents(tasks, task_id)))

\* C4 witness: a task that requires task_id both directly and through
\* another dependent has been counted, once.
C4_Witness ==
  /\ CountDone /\ DistinctIds(tasks) /\ task_id \in GraphIds(tasks)
  /\ \E i, j \in 1..Len(tasks) :
       /\ i # j
       /\ SeqContains(DepStrs(tasks[i]), task_id)
       /\ SeqContains(DepStrs(tasks[j]), task_id)
       /\ SeqContains(DepStrs(tasks[j]), TaskId(tasks[i], i - 1))
       /\ TaskId(tasks[i], i - 1) # task_id
       /\ TaskId(tasks[j], j - 1) # task_id
  /\ ret.v = 2

\* No dependency edge joins the ids of S and the other ids of the batch.
Separate(ts, S) ==
  \A u \in S : \A v \in GraphIds(ts) \ S : ~Edge(ts, u, v) /\ ~Edge(ts, v, u)
CycleWithin(ts, S) == \E u \in S : OnCycle(ts, u)

\* C20: when the dependency graph of a batch holds cycles in two groups of
\* tasks that share no task and have no dependency edge between them,
\* detect_circular_dependencies returns, and for each group at least one of
\* the cycles it reports is made of tasks of that group.
C20_DisjointCyclesFound ==
  DetectDone =>
    \A S \in SUBSET GraphIds(tasks) :
      (Separate(tasks, S) /\ CycleWithin(tasks, S)
         /\ CycleWithin(tasks, GraphIds(tasks) \ S)) =>
        /\ ~ret.raised
        /\ \E k \in 1..Len(ret.v) :
             ret.v[k] # <<>> /\ \A m \in 1..Len(ret.v[k]) : ret.v[k][m] \in S

\* C15: count_blocking_tasks terminates on every batch, cycles,
\* self-dependencies and diamonds included: in the breadth-first traversal
\* an id is added to the queue at most once (only when it is not yet in
\* dependents, which holds every id ever queued), so the queue empties.
C15_BfsTerminates ==
  /\ <>(pc = "done")
  /\ [](\A k \in 1..Len(queue) : queue[k] \in dependents)
  /\ [](\A i, j \in 1..Len(queue) : queue[i] = queue[j] => i = j)
  /\ [][(pc = "while" /\ pc' = "while") =>
          /\ Len(queue') >= Len(queue) - 1
          /\ SubSeq(queue', 1, Len(queue) - 1) = Tail(queue)
          /\ \A k \in Len(queue)..Len(queue') : queue'[k] \notin dependents]_vars

\* C15 witness: the count has been returned for a task on a cycle that has
\* a dependent of its own besides.
C15_Witness ==
  /\ pc = "done" /\ op = "count_blocking_tasks"
  /\ DistinctIds(tasks) /\ task_id \in GraphIds(tasks)
  /\ OnCycle(tasks, task_id)
  /\ \E u \in GraphIds(tasks) : Edge(tasks, u, task_id) /\ ~OnCycle(tasks, u)
  /\ dependents # {} /\ queue = <<>>
  /\ ret.v = Cardinality(dependents)

\* The positions of the tasks other than tid that list tid directly or
\* transitively.
OtherDependents(ts, tid) ==
  {i \in TransitiveDependents(ts, tid) : TaskId(ts[i], i - 1) # tid}

\* C21: the blocking count of a task counts only other tasks, never the
\* task itself: in a batch of n tasks with distinct ids,
\* count_blocking_tasks(t, batch) <= n - 1 for every task t of the batch,
\* also when t lies on a dependency cycle or depends on itself.
C21_CountsOthersOnly ==
  (CountDone /\ DistinctIds(tasks) /\ task_id \in GraphIds(tasks)) =>
    /\ ~ret.raised
    /\ ret.v <= Len(tasks) - 1
    /\ ret.v = Cardinality(OtherDependents(tasks, task_id))

(***************************************************************************)
(* Claims about analyze_tasks and suggest_tasks                            *)
(***************************************************************************)
AnalyzeDone == pc = "done" /\ op = "analyze_tasks"
SuggestDone == pc = "done" /\ op = "suggest_tasks"

\* What validate_task makes of each task of a batch, in input order.
Validation(ts) ==
  ValidateAll(ts, 1, [raised |-> FALSE, exc |-> "",
                      validated_tasks |-> <<>>, validation_errors |-> <<>>])

\* The result record of the task given at position i (from 0).
ResultOf(result, i) ==
  CHOOSE r \in {result[k] : k \in 1..Len(result)} : r.original_index = i

Min(a, b) == IF a < b THEN a ELSE b

\* C1: for every batch whose dependency lists hold a circular dependency or
\* a self-dependency (further tasks depending on a member of a cycle
\* included), analyze_tasks completes without raising, reports the cycles in
\* circular_dependencies, and returns a scored and ranked record for every
\* task.  (Only batches whose every task validate_task accepts or defaults
\* are looked at here.)
C1_GraphIssuesNotFatal ==
  (AnalyzeDone /\ ~Validation(tasks).raised
     /\ HasCycle(Validation(tasks).validated_tasks)) =>
    /\ ~ret.raised
    /\ ret.v.circular_dependencies # <<>>
    /\ Len(ret.v.tasks) = Len(tasks)
    /\ \A k \in 1..Len(ret.v.tasks) :
         ret.v.tasks[k].rank = k /\ ret.v.tasks[k].priority_score >= 0

\* C7: for every input list of n tasks, analyze_tasks returns n result
\* records with total_tasks = n, their original_index values are a
\* permutation of 0..n-1, and a task with validation errors is in the result
\* with its defaulted values and in validation_errors under its index.
C7_NoTaskRemoved ==
  AnalyzeDone =>
    /\ ~ret.raised
    /\ Len(ret.v.tasks) = Len(tasks)
    /\ ret.v.total_tasks = Len(tasks)
    /\ {ret.v.tasks[k].original_index : k \in 1..Len(ret.v.tasks)} = 0..(Len(tasks) - 1)
    /\ \A i \in 1..Len(tasks) :
         LET v == validate_task(tasks[i]).v
             r == ResultOf(ret.v.tasks, i - 1)
         IN ~v.is_valid =>
              /\ \E e \in 1..Len(ret.v.validation_errors) :
                   /\ ret.v.validation_errors[e].task_index = i - 1
                   /\ ret.v.validation_errors[e].errors = v.errors
              /\ r.title = v.sanitized.title
              /\ r.estimated_hours = v.sanitized.estimated_hours
              /\ r.importance = v.sanitized.importance
              /\ r.dependencies = v.sanitized.dependencies

\* C8: the tasks list that analyze_tasks returns is in non-increasing order
\* of priority_score, and two tasks of equal priority_score are in their
\* input order (ascending original_index).
C8_SortedStable ==
  (AnalyzeDone /\ ~ret.raised) =>
    \A i, j \in 1..Len(ret.v.tasks) :
      i < j =>
        /\ ret.v.tasks[i].priority_score >= ret.v.tasks[j].priority_score
        /\ ret.v.tasks[i].priority_score = ret.v.tasks[j].priority_score
             => ret.v.tasks[i].original_index < ret.v.tasks[j].original_index

\* C8 witness: a returned list of three tasks in which two have the same
\* score and the sort moved a later task ahead of an earlier one.
C8_Witness ==
  /\ AnalyzeDone /\ ~ret.raised
  /\ Len(ret.v.tasks) = 3
  /\ \E i, j \in 1..3 :
       i < j /\ ret.v.tasks[i].priority_score = ret.v.tasks[j].priority_score
  /\ \E i, j \in 1..3 :
       /\ i < j
       /\ ret.v.tasks[i].priority_score > ret.v.tasks[j].priority_score
       /\ ret.v.tasks[i].original_index > ret.v.tasks[j].original_index

\* C9: for every non-empty batch and every count N >= 1, suggest_tasks
\* returns min(N, number of tasks) suggestions, they are the first tasks of
\* the analyze_tasks ranking in the same order, and each has a non-empty
\* reasons list.
C9_SuggestCount ==
  (SuggestDone /\ Len(tasks) >= 1 /\ count >= 1) =>
    /\ ~ret.raised
    /\ Len(ret.v.suggestions) = Min(count, Len(tasks))
    /\ LET ranking == analyze_tasks(tasks, strategy, now).v.tasks
       IN \A k \in 1..Len(ret.v.suggestions) :
            /\ ret.v.suggestions[k].rank = k
            /\ ret.v.suggestions[k].task.title = ranking[k].title
            /\ ret.v.suggestions[k].priority_score = ranking[k].priority_score
            /\ ret.v.suggestions[k].component_scores = ranking[k].component_scores
            /\ ret.v.suggestions[k].reasons # <<>>

\* C16: the task at position k (from 1) of the list analyze_tasks returns
\* has rank k, so the ranks of a batch of n tasks are 1..n without gaps, and
\* a task of strictly higher priority_score has a smaller rank.
C16_DenseRank ==
  (AnalyzeDone /\ ~ret.raised) =>
    /\ \A k \in 1..Len(ret.v.tasks) : ret.v.tasks[k].rank = k
    /\ {ret.v.tasks[k].rank : k \in 1..Len(ret.v.tasks)} = 1..Len(tasks)
    /\ \A i, j \in 1..Len(ret.v.tasks) :
         ret.v.tasks[i].priority_score > ret.v.tasks[j].priority_score
           => ret.v.tasks[i].rank < ret.v.tasks[j].rank

\* C16 witness: three tasks of three different scores have been ranked, the
\* first of the input not first.
C16_Witness ==
  /\ AnalyzeDone /\ ~ret.raised
  /\ Len(ret.v.tasks) = 3
  /\ ret.v.tasks[1].priority_score > ret.v.tasks[2].priority_score
  /\ ret.v.tasks[2].priority_score > ret.v.tasks[3].priority_score
  /\ ret.v.tasks[1].original_index # 0
  /\ ret.v.tasks[3].rank = 3

\* The markers of the reasons of a suggestion.
Markers(sug) == {sug.reasons[r].marker : r \in 1..Len(sug.reasons)}

\* C17: the reasons of a suggested task re-apply the thresholds of the
\* summary: a reason for a factor is there exactly when the factor triggers
\* its summary threshold (urgency >= 75, importance >= 70, effort >= 70,
\* dependency >= 40), urgency in [50, 75) giving one more reason; when none
\* triggers the reasons are the summary text alone.
C17_ReasonThresholds ==
  (SuggestDone /\ ~ret.raised) =>
    \A k \in 1..Len(ret.v.suggestions) :
      LET sug == ret.v.suggestions[k]
          scores == sug.component_scores
          triggered == (IF scores.urgency >= 7500 THEN {"red"} ELSE {})
                         \cup (IF scores.urgency >= 5000 /\ scores.urgency < 7500
                               THEN {"yellow"} ELSE {})
                         \cup (IF scores.importance >= 7000 THEN {"star"} ELSE {})
                         \cup (IF scores.effort >= 7000 THEN {"bolt"} ELSE {})
                         \cup (IF scores.dependency >= 4000 THEN {"link"} ELSE {})
      IN IF triggered = {}
         THEN Len(sug.reasons) = 1 /\ sug.reasons[1].marker = ""
         ELSE Markers(sug) = triggered /\ Len(sug.reasons) = Cardinality(triggered)

\* C18: suggest_tasks returns a warning exactly when cycle detection over
\* the full batch reported at least one circular dependency, whether or not
\* a task of a cycle is among the suggestions; otherwise the warning is None.
C18_WarningIffCycles ==
  (SuggestDone /\ ~ret.raised) =>
    LET detected == detect_circular_dependencies(Validation(tasks).validated_tasks)
    IN /\ ~detected.raised
       /\ detected.v # <<>> => ret.v.warning = Int_(Len(detected.v))
       /\ detected.v = <<>> => ret.v.warning = None

\* C18 witness: a warning has been returned although no suggested task is
\* in a reported cycle.
C18_Witness ==
  /\ SuggestDone /\ ~ret.raised
  /\ ret.v.warning # None
  /\ Len(ret.v.suggestions) >= 1
  /\ LET detected == detect_circular_dependencies(Validation(tasks).validated_tasks)
     IN \A c \in 1..Len(detected.v) : \A k \in 1..Len(ret.v.suggestions) :
          ~SeqContains(detected.v[c], PyStr(ret.v.suggestions[k].task.id))

\* Ids that no task of a batch has, explicit or by position.
AbsentIds == {8, 9}

\* The batch with d appended to the dependencies list of its i-th task.
WithDependency(ts, i, d) == [ts EXCEPT ![i].dependencies = List(Append(@.l, d))]

\* The two validated batches have the same detected cycles (or the same
\* exception) and the same blocking count for every task.
SameGraphOutcome(va, vb) ==
  /\ detect_circular_dependencies(va) = detect_circular_dependencies(vb)
  /\ \A k \in 1..Len(va) :
       count_blocking_tasks(TaskId(va[k], k - 1), va)
         = count_blocking_tasks(TaskId(va[k], k - 1), vb)

\* The two outcomes of analyze_tasks agree on raising, on the cycles, on the
\* validation errors and on every task's dependency score and explanation.
SameAnalysis(ra, rb) ==
  /\ ra.raised = rb.raised
  /\ ra.exc = rb.exc
  /\ ~ra.raised =>
       /\ ra.v.circular_dependencies = rb.v.circular_dependencies
       /\ ra.v.validation_errors = rb.v.validation_errors
       /\ Len(ra.v.tasks) = Len(rb.v.tasks)
       /\ \A k \in 1..Len(ra.v.tasks) :
            /\ ra.v.tasks[k].original_index = rb.v.tasks[k].original_index
            /\ ra.v.tasks[k].component_scores = rb.v.tasks[k].component_scores
            /\ ra.v.tasks[k].explanations = rb.v.tasks[k].explanations

\* Adding the absent id d to the i-th task's list changes nothing.
AbsentIdIgnored(ts, i, d) ==
  /\ SameAnalysis(ret, analyze_tasks(WithDependency(ts, i, d), strategy, now))
  /\ Validation(ts).raised = Validation(WithDependency(ts, i, d)).raised
  /\ ~Validation(ts).raised =>
       /\ Validation(ts).validation_errors
            = Validation(WithDependency(ts, i, d)).validation_errors
       /\ SameGraphOutcome(Validation(ts).validated_tasks,
                           Validation(WithDependency(ts, i, d)).validated_tasks)

\* C19: a dependency on an id that no task of the batch has is ignored and
\* is no error: appending such an id to any task's dependencies list changes
\* neither the detected cycles, nor the blocking count of any task of the
\* batch, nor the validation_errors of the analysis.
C19_AbsentIdsIgnored ==
  AnalyzeDone =>
    \A i \in 1..Len(tasks) : \A d \in AbsentIds :
      tasks[i].dependencies.t = "list" => AbsentIdIgnored(tasks, i, d)

\* C19 witness: an analysis has returned for a batch with a cycle in which a
\* task of the cycle and a task with a dependent both have a dependencies
\* list, the batch already names an id of no task, and the analysis of the
\* batch with one more absent id on the cycle's task is another record with
\* the same cycles, counts and errors.
C19_Witness ==
  /\ AnalyzeDone /\ ~ret.raised
  /\ ret.v.circular_dependencies # <<>>
  /\ ret.v.validation_errors = <<>>
  /\ \E i, j \in 1..Len(tasks) :
       /\ i # j
       /\ tasks[i].dependencies.t = "list" /\ tasks[j].dependencies.t = "list"
       /\ SeqContains(tasks[i].dependencies.l, 9)
       /\ SeqContains(ret.v.circular_dependencies[1], PyStr(tasks[j].id))
       /\ ret # analyze_tasks(WithDependency(tasks, j, 8), strategy, now)
       /\ AbsentIdIgnored(tasks, j, 8)

\* The weights_used figures of a scorer of the given strategy.
WeightsUsed(st) ==
  LET w == normalize(STRATEGY_WEIGHTS(st))
  IN [urgency |-> RoundHalfEven(w.urgency * 100, w.den),
      importance |-> RoundHalfEven(w.importance * 100, w.den),
      effort |-> RoundHalfEven(w.effort * 100, w.den),
      dependency |-> RoundHalfEven(w.dependency * 100, w.den)]

\* C11: for every strategy name, analyze_tasks and suggest_tasks do not
\* fail; a name that is one of smart_balance, fastest_wins, high_impact,
\* deadline_driven is the strategy used and reported in strategy_used, and
\* for any other name the weights of smart_balance are used and
\* strategy_used is "smart_balance".
C11_StrategyFallback ==
  (AnalyzeDone \/ SuggestDone) =>
    /\ ~ret.raised
    /\ ret.v.strategy_used = (IF strategy \in SortingStrategy THEN strategy ELSE SMART_BALANCE)
    /\ AnalyzeDone =>
         \A k \in 1..Len(ret.v.tasks) :
           ret.v.tasks[k].weights_used =
             WeightsUsed(IF strategy \in SortingStrategy THEN strategy ELSE SMART_BALANCE)

(***************************************************************************)
(* Claims about the PriorityScorer                                         *)
(***************************************************************************)
UrgencyDone == pc = "done" /\ op = "calculate_urgency_score"

\* The day the score is computed for: today, or the day of the call.
UrgencyDay == IF today = None THEN now.n ELSE today.n

\* The step function of the days until due, in score units.
UrgencySteps(d) ==
  IF d < 0 THEN Min(150, 100 + 5 * (-d))
  ELSE IF d = 0 THEN 95
  ELSE IF d = 1 THEN 85
  ELSE IF 2 <= d /\ d <= 3 THEN 75
  ELSE IF 4 <= d /\ d <= 7 THEN 60
  ELSE IF 8 <= d /\ d <= 14 THEN 40
  ELSE IF 15 <= d /\ d <= 30 THEN 25
  ELSE 10

NormalizeDone == pc = "done" /\ op = "normalize"

\* C13: for each of the four presets the normalized weights a PriorityScorer
\* uses are all non-negative and sum to 1; a StrategyWeights whose four
\* weights are all zero normalizes to 0.25 each, with no division by zero.
C13_WeightsNormalized ==
  NormalizeDone =>
    /\ ~ret.raised
    /\ ret.v.den > 0
    /\ ret.v.urgency >= 0 /\ ret.v.importance >= 0
    /\ ret.v.effort >= 0 /\ ret.v.dependency >= 0
    /\ ret.v.urgency + ret.v.importance + ret.v.effort + ret.v.dependency = ret.v.den
    /\ weights_arg = NoWeights =>
         /\ 4 * ret.v.urgency = ret.v.den /\ 4 * ret.v.importance = ret.v.den
         /\ 4 * ret.v.effort = ret.v.den /\ 4 * ret.v.dependency = ret.v.den

\* C13 witness: the all-zero weights have been normalized to a quarter each.
C13_Witness ==
  /\ NormalizeDone
  /\ weights_arg = NoWeights
  /\ ret.v = [urgency |-> 1, importance |-> 1, effort |-> 1, dependency |-> 1, den |-> 4]

(***************************************************************************)
(* Every call                                                              *)
(***************************************************************************)
Init == InitValidate \/ InitGraph \/ InitDisjoint \/ InitBfs \/ InitUrgency \/ InitWeights \/ InitAnalyze \/ InitSession

Next == NextValidate \/ NextGraph \/ NextDisjoint \/ NextBfs \/ NextUrgency \/ NextWeights \/ NextAnalyze
          \/ NextSession

Spec == Init /\ [][Next]_vars

====
